---- MODULE Spec2Model ----
(***************************************************************************)
(* The config service of aheld/azure-demo: an actix-web application whose  *)
(* six route handlers share one ConfigStore (a Mutex<Vec<Config>>), with   *)
(* the ApiKeyMiddleware wrapped around DELETE (RequireApiKey) and PUT      *)
(* (LogApiKey).                                                            *)
(*                                                                         *)
(* A worker context takes a request (Accept), runs the middleware of the   *)
(* route if it has one, calls the handler, which locks the store, runs its *)
(* body and builds the response, and returns: the MutexGuard is dropped    *)
(* and the response leaves (Return).                                       *)
(***************************************************************************)
EXTENDS Integers, Sequences, FiniteSets, TLC

\* ---------------------------------------------------------------- bounds
NumWorkers == 2
MaxId == 2

Workers == 1..NumWorkers
Ids == 1..MaxId

\* ------------------------------------------------------------- constants
API_KEY == "rust-rocks"

\* RequireApiKey built as a log-only gate
RequireApiKey_enforce_dropped == TRUE

\* log_only of the ApiKeyMiddleware built by RequireApiKey::new_transform
RequireApiKey_log_only == FALSE

\* LogApiKey built as an enforcing gate
LogApiKey_enforcing == FALSE

\* log_only of the ApiKeyMiddleware built by LogApiKey::new_transform
LogApiKey_log_only == TRUE

\* ------------------------------------------------------------------ text
\* A String is a sequence of characters.  The characters of the model:
\* two cased Latin letters and the three forms of the Greek sigma, the one
\* letter whose lowercase std's str::to_lowercase picks by context.
Chars == {"A", "a", "SIGMA", "sigma", "final_sigma"}

\* char::to_lowercase for every character but capital sigma
char_to_lowercase(c) ==
    CASE c = "A" -> "a"
      [] c = "SIGMA" -> "sigma"
      [] OTHER -> c

\* Every character of Chars is Cased and none is Case_Ignorable, so
\* case_ignorable_then_cased(iter) is "iter has a first character".
\* A capital sigma is word-final when a cased letter precedes it and none
\* follows it.
is_word_final(s, i) == i > 1 /\ ~(i < Len(s))

\* str::to_lowercase, as called on config.value and on query.value
to_lowercase(s) ==
    [i \in 1..Len(s) |->
        IF s[i] = "SIGMA"
        THEN (IF is_word_final(s, i) THEN "final_sigma" ELSE "sigma")
        ELSE char_to_lowercase(s[i])]

\* str::contains with a &String pattern
contains(haystack, needle) ==
    \E i \in 0..(Len(haystack) - Len(needle)) :
        SubSeq(haystack, i + 1, i + Len(needle)) = needle

\* format!("id = {}", id)
FormatId(id) == "id = " \o ToString(id)

\* -------------------------------------------------------------- the data
Descs == {"Chain name", "Loyalty"}
Keys == {"chain_name"}
Values == {<<"a">>, <<"A", "SIGMA", "A">>}
Queries == {<<>>, <<"A">>, <<"A", "SIGMA">>}

\* struct Config
Config == [id : Ids, desc : Descs, key : Keys, value : Values]

\* Option<T>: None is <<>>, Some(x) is <<x>>
None == <<>>
Some(x) == <<x>>

NoConfig == [id |-> 0, desc |-> "", key |-> "", value |-> <<>>]

\* The header values a client sends under the name "apikey"
ApiKeyHeaders == {None, Some(API_KEY), Some("wrong-key")}

\* A request: the route (op), the path id, the Json<Config> body of POST,
\* the ConfigUpdateRequest body of PUT (value, secret), the query of
\* search, and the apikey header.
Req(op, id, config, value, secret, query, apikey) ==
    [op |-> op, id |-> id, config |-> config, value |-> value,
     secret |-> secret, query |-> query, apikey |-> apikey]

NoReq == Req("none", 0, NoConfig, None, None, <<>>, None)

ListRequests == {Req("get_configs", 0, NoConfig, None, None, <<>>, None)}
SearchRequests ==
    {Req("search_configs", 0, NoConfig, None, None, q, None) : q \in Queries}
CreateRequests ==
    {Req("create_config", 0, c, None, None, <<>>, None) : c \in Config}
GetRequests ==
    {Req("get_config_by_id", id, NoConfig, None, None, <<>>, None) : id \in Ids}
DeleteRequests ==
    {Req("delete_config", id, NoConfig, None, None, <<>>, h) :
        id \in Ids, h \in ApiKeyHeaders}
UpdateRequests ==
    {Req("update_config", id, NoConfig, v, s, <<>>, h) :
        id \in Ids, v \in {None} \cup {Some(x) : x \in Values},
        s \in {None, Some(TRUE)}, h \in ApiKeyHeaders}

Requests ==
    ListRequests \cup SearchRequests \cup CreateRequests \cup GetRequests
        \cup DeleteRequests \cup UpdateRequests

\* The requests of the concurrent specification: every route, every id for
\* the routes that write, one Config per id, one patch, and the headers
\* that pass both gates.
ConcRequests ==
    ListRequests
        \cup {r \in SearchRequests : r.query = <<"A">>}
        \cup {r \in CreateRequests :
                r.config.desc = "Chain name" /\ r.config.value = <<"a">>}
        \cup {r \in GetRequests : r.id = 1}
        \cup {r \in DeleteRequests : r.apikey = Some(API_KEY)}
        \cup {r \in UpdateRequests :
                /\ r.value = Some(<<"A", "SIGMA", "A">>)
                /\ r.secret = None
                /\ r.apikey = None}

\* The requests of the fair specification: one request of every route on
\* id 1, and a delete that the gate refuses.
FairRequests ==
    {r \in ConcRequests : r.op \in {"get_configs", "search_configs"}}
        \cup {r \in ConcRequests : r.config.id = 1 \/ r.id = 1}
        \cup {r \in DeleteRequests : r.id = 1 /\ r.apikey = None}

\* An HttpResponse: the status, the kind of body and, of the body, the
\* detail string of an ErrorResponse or the Config records of a success.
Resp(status, tag, detail, body) ==
    [status |-> status, tag |-> tag, detail |-> detail, body |-> body]

NoResp == Resp(0, "none", "", <<>>)

\* HttpResponse::Ok().json(configs) with a Vec<Config>
OkList(cs) == Resp(200, "Configs", "", cs)
\* HttpResponse::Ok().json(config)
OkConfig(c) == Resp(200, "Config", "", <<c>>)
\* HttpResponse::Ok().finish()
OkEmpty == Resp(200, "Empty", "", <<>>)
\* HttpResponse::NotFound().json(ErrorResponse::NotFound(..))
NotFound(detail) == Resp(404, "NotFound", detail, <<>>)
\* HttpResponse::Conflict().json(ErrorResponse::Conflict(..))
Conflict(detail) == Resp(409, "Conflict", detail, <<>>)
\* HttpResponse::Unauthorized().json(ErrorResponse::Unauthorized(..))
Unauthorized(detail) == Resp(401, "Unauthorized", detail, <<>>)

\* ------------------------------------------------------------- the state
VARIABLES
    configs,      \* ConfigStore.configs: the Vec<Config> inside the Mutex
    mutex,        \* the workers holding a MutexGuard of ConfigStore.configs
    pc,           \* pc[w]: where worker w is in its request
    req,          \* req[w]: the request worker w is serving
    resp,         \* resp[w]: the HttpResponse worker w has built
    found,        \* found[w]: the index the handler's find gave, 0 for None
    new_configs,  \* new_configs[w]: the filtered Vec of delete_config
    sconfigs,     \* history: the store of the serial run, in lock order
    sresp         \* history: sresp[w], the response of the serial run

vars == <<configs, mutex, pc, req, resp, found, new_configs, sconfigs, sresp>>

\* ------------------------------------------------------------ iterators
\* A find whose closure never matches
FindNothing(cs, id) == 0

\* iter().find(|c| c.id == id): the index of the first match, 0 for None
Find(cs, id) ==
    IF \E i \in 1..Len(cs) : cs[i].id = id
    THEN CHOOSE i \in 1..Len(cs) :
            /\ cs[i].id = id
            /\ \A j \in 1..(i - 1) : cs[j].id # id
    ELSE 0

\* The filter of delete_config with its test inverted
KeepOnlyId(id, c) == c.id = id

\* the closure |config| config.id != id
KeepId(id, c) == c.id # id

\* iter().filter(|config| config.id != id).cloned().collect()
FilterNotId(cs, id) == SelectSeq(cs, LAMBDA c : KeepId(id, c))

\* the filter closure of search_configs
Matches(c, q) == contains(to_lowercase(c.value), to_lowercase(q))

\* iter().filter(..).cloned().collect() of search_configs
FilterSearch(cs, q) == SelectSeq(cs, LAMBDA c : Matches(c, q))

\* ----------------------------------------- the handlers, run atomically
\* Each gives <<the store after, the response>>.
SerialCreate(cs, c) ==
    LET f == Find(cs, c.id)
    IN  IF f # 0
        THEN <<cs, Conflict(FormatId(cs[f].id))>>
        ELSE <<Append(cs, c), OkConfig(c)>>

SerialDelete(cs, id) ==
    LET n == FilterNotId(cs, id)
    IN  IF Len(n) = Len(cs)
        THEN <<cs, NotFound(FormatId(id))>>
        ELSE <<n, OkEmpty>>

SerialGetById(cs, id) ==
    LET f == Find(cs, id)
    IN  IF f # 0 THEN <<cs, OkConfig(cs[f])>> ELSE <<cs, NotFound(FormatId(id))>>

SerialUpdate(cs, id, value) ==
    LET f == Find(cs, id)
    IN  IF f = 0
        THEN <<cs, NotFound(FormatId(id))>>
        ELSE LET n == IF value # None
                      THEN [cs EXCEPT ![f].value = value[1]]
                      ELSE cs
             IN  <<n, OkConfig(n[f])>>

Serial(cs, r) ==
    CASE r.op = "get_configs" -> <<cs, OkList(cs)>>
      [] r.op = "search_configs" -> <<cs, OkList(FilterSearch(cs, r.query))>>
      [] r.op = "create_config" -> SerialCreate(cs, r.config)
      [] r.op = "get_config_by_id" -> SerialGetById(cs, r.id)
      [] r.op = "delete_config" -> SerialDelete(cs, r.id)
      [] r.op = "update_config" -> SerialUpdate(cs, r.id, r.value)

\* ------------------------------------------------------------------ Init
\* ConfigStore::default(): an empty Vec behind an unlocked Mutex; no
\* request has arrived.
Init ==
    /\ configs = <<>>
    /\ mutex = {}
    /\ pc = [w \in Workers |-> "idle"]
    /\ req = [w \in Workers |-> NoReq]
    /\ resp = [w \in Workers |-> NoResp]
    /\ found = [w \in Workers |-> 0]
    /\ new_configs = [w \in Workers |-> <<>>]
    /\ sconfigs = <<>>
    /\ sresp = [w \in Workers |-> NoResp]

\* --------------------------------------------------------------- actions
\* The routes wrapped in a middleware
Gated(r) == r.op \in {"delete_config", "update_config"}

\* The server hands request r to worker w: a gated route goes to its
\* middleware, any other straight to its handler.
Dispatch(w, r) ==
    /\ pc[w] = "idle"
    /\ req' = [req EXCEPT ![w] = r]
    /\ pc' = [pc EXCEPT ![w] = IF Gated(r) THEN "gate" ELSE "handler"]
    /\ UNCHANGED <<configs, mutex, resp, found, new_configs, sconfigs, sresp>>

\* One request at a time: w takes a request while no other is in flight.
Accept(w) ==
    /\ \A v \in Workers : pc[v] = "idle"
    /\ \E r \in Requests : Dispatch(w, r)

\* Requests arrive while others are in flight.
AcceptConcurrent(w) ==
    \E r \in ConcRequests : Dispatch(w, r)

\* As AcceptConcurrent, with the requests of the fair specification.
AcceptFair(w) ==
    \E r \in FairRequests : Dispatch(w, r)

\* ApiKeyMiddleware::call
ApiKeyMiddlewareCall(w, log_only) ==
    /\ pc[w] = "gate"
    /\ LET key == req[w].apikey
       IN  IF key # None /\ key[1] # API_KEY /\ ~log_only
           THEN /\ resp' = [resp EXCEPT ![w] = Unauthorized("incorrect api key")]
                /\ pc' = [pc EXCEPT ![w] = "return"]
           ELSE IF key = None /\ ~log_only
           THEN /\ resp' = [resp EXCEPT ![w] = Unauthorized("missing api key")]
                /\ pc' = [pc EXCEPT ![w] = "return"]
           ELSE /\ resp' = resp
                /\ pc' = [pc EXCEPT ![w] = "handler"]
    /\ UNCHANGED <<configs, mutex, req, found, new_configs, sconfigs, sresp>>

\* #[delete("/config/{id}", wrap = "RequireApiKey")]
RequireApiKey(w) ==
    /\ req[w].op = "delete_config"
    /\ ApiKeyMiddlewareCall(w, RequireApiKey_log_only)

\* #[put("/config/{id}", wrap = "LogApiKey")]
LogApiKey(w) ==
    /\ req[w].op = "update_config"
    /\ ApiKeyMiddlewareCall(w, LogApiKey_log_only)

\* A lock that never makes a caller wait
MutexAlwaysFree == TRUE

\* Mutex::lock grants the guard when no other guard is alive.
MutexFree == mutex = {}

\* config_store.configs.lock().unwrap(), the first statement of every
\* handler.  The serial run performs the whole request here.
Lock(w) ==
    /\ pc[w] = "handler"
    /\ MutexFree
    /\ mutex' = mutex \cup {w}
    /\ pc' = [pc EXCEPT ![w] = req[w].op]
    /\ sconfigs' = Serial(sconfigs, req[w])[1]
    /\ sresp' = [sresp EXCEPT ![w] = Serial(sconfigs, req[w])[2]]
    /\ UNCHANGED <<configs, req, resp, found, new_configs>>

\* get_configs
GetConfigs(w) ==
    /\ pc[w] = "get_configs"
    /\ resp' = [resp EXCEPT ![w] = OkList(configs)]
    /\ pc' = [pc EXCEPT ![w] = "return"]
    /\ UNCHANGED <<configs, mutex, req, found, new_configs, sconfigs, sresp>>

\* search_configs
SearchConfigs(w) ==
    /\ pc[w] = "search_configs"
    /\ resp' = [resp EXCEPT ![w] = OkList(FilterSearch(configs, req[w].query))]
    /\ pc' = [pc EXCEPT ![w] = "return"]
    /\ UNCHANGED <<configs, mutex, req, found, new_configs, sconfigs, sresp>>

\* get_config_by_id
GetConfigById(w) ==
    /\ pc[w] = "get_config_by_id"
    /\ LET f == Find(configs, req[w].id)
       IN  resp' = [resp EXCEPT ![w] =
                IF f # 0 THEN OkConfig(configs[f])
                ELSE NotFound(FormatId(req[w].id))]
    /\ pc' = [pc EXCEPT ![w] = "return"]
    /\ UNCHANGED <<configs, mutex, req, found, new_configs, sconfigs, sresp>>

\* create_config: configs.iter().find(|existing| existing.id == config.id)
CreateFind(w) ==
    /\ pc[w] = "create_config"
    /\ found' = [found EXCEPT ![w] = Find(configs, req[w].config.id)]
    /\ pc' = [pc EXCEPT ![w] = "create_push"]
    /\ UNCHANGED <<configs, mutex, req, resp, new_configs, sconfigs, sresp>>

\* create_config as an upsert: a used id overwrites the record
CreateUpsert(w) ==
    /\ pc[w] = "create_push"
    /\ IF found[w] # 0
       THEN /\ configs' = [configs EXCEPT ![found[w]] = req[w].config]
            /\ resp' = [resp EXCEPT ![w] = OkConfig(req[w].config)]
       ELSE /\ configs' = Append(configs, req[w].config)
            /\ resp' = [resp EXCEPT ![w] = OkConfig(req[w].config)]
    /\ pc' = [pc EXCEPT ![w] = "return"]
    /\ UNCHANGED <<mutex, req, found, new_configs, sconfigs, sresp>>

\* create_config: .map(Conflict).unwrap_or_else(push, Ok)
CreatePush(w) ==
    /\ pc[w] = "create_push"
    /\ IF found[w] # 0
       THEN /\ resp' = [resp EXCEPT ![w] =
                    Conflict(FormatId(configs[found[w]].id))]
            /\ configs' = configs
       ELSE /\ configs' = Append(configs, req[w].config)
            /\ resp' = [resp EXCEPT ![w] = OkConfig(req[w].config)]
    /\ pc' = [pc EXCEPT ![w] = "return"]
    /\ UNCHANGED <<mutex, req, found, new_configs, sconfigs, sresp>>

\* delete_config: let new_configs = configs.iter().filter(..).collect()
DeleteFilter(w) ==
    /\ pc[w] = "delete_config"
    /\ new_configs' = [new_configs EXCEPT ![w] = FilterNotId(configs, req[w].id)]
    /\ pc' = [pc EXCEPT ![w] = "delete_commit"]
    /\ UNCHANGED <<configs, mutex, req, resp, found, sconfigs, sresp>>

\* delete_config without the assignment *configs = new_configs
DeleteNoAssign(w) ==
    /\ pc[w] = "delete_commit"
    /\ IF Len(new_configs[w]) = Len(configs)
       THEN resp' = [resp EXCEPT ![w] = NotFound(FormatId(req[w].id))]
       ELSE resp' = [resp EXCEPT ![w] = OkEmpty]
    /\ configs' = configs
    /\ pc' = [pc EXCEPT ![w] = "return"]
    /\ UNCHANGED <<mutex, req, found, new_configs, sconfigs, sresp>>

\* delete_config: if new_configs.len() == configs.len() { 404 } else { .. }
DeleteCommit(w) ==
    /\ pc[w] = "delete_commit"
    /\ IF Len(new_configs[w]) = Len(configs)
       THEN /\ resp' = [resp EXCEPT ![w] = NotFound(FormatId(req[w].id))]
            /\ configs' = configs
       ELSE /\ configs' = new_configs[w]
            /\ resp' = [resp EXCEPT ![w] = OkEmpty]
    /\ pc' = [pc EXCEPT ![w] = "return"]
    /\ UNCHANGED <<mutex, req, found, new_configs, sconfigs, sresp>>

\* update_config: configs.iter_mut().find_map(..)
UpdateFind(w) ==
    /\ pc[w] = "update_config"
    /\ found' = [found EXCEPT ![w] = Find(configs, req[w].id)]
    /\ pc' = [pc EXCEPT ![w] = "update_apply"]
    /\ UNCHANGED <<configs, mutex, req, resp, new_configs, sconfigs, sresp>>

\* A patch that writes value.unwrap_or_default()
ApplyPatchDefault(existing, value, secret) ==
    [existing EXCEPT !.value = IF value # None THEN value[1] ELSE <<>>]

\* The patch of update_config applied to the record found
ApplyPatch(existing, value, secret) ==
    IF value # None THEN [existing EXCEPT !.value = value[1]] ELSE existing

\* update_config: .map(apply the patch, Ok).unwrap_or_else(NotFound)
UpdateApply(w) ==
    /\ pc[w] = "update_apply"
    /\ IF found[w] # 0
       THEN LET existing ==
                    ApplyPatch(configs[found[w]], req[w].value, req[w].secret)
            IN  /\ configs' = [configs EXCEPT ![found[w]] = existing]
                /\ resp' = [resp EXCEPT ![w] = OkConfig(existing)]
       ELSE /\ resp' = [resp EXCEPT ![w] = NotFound(FormatId(req[w].id))]
            /\ configs' = configs
    /\ pc' = [pc EXCEPT ![w] = "return"]
    /\ UNCHANGED <<mutex, req, found, new_configs, sconfigs, sresp>>

\* A return that leaks the MutexGuard
ReturnLeakGuard(w) ==
    /\ pc[w] = "return"
    /\ pc' = [pc EXCEPT ![w] = "idle"]
    /\ req' = [req EXCEPT ![w] = NoReq]
    /\ resp' = [resp EXCEPT ![w] = NoResp]
    /\ found' = [found EXCEPT ![w] = 0]
    /\ new_configs' = [new_configs EXCEPT ![w] = <<>>]
    /\ sresp' = [sresp EXCEPT ![w] = NoResp]
    /\ UNCHANGED <<configs, mutex, sconfigs>>

\* The handler (or the rejecting middleware) returns: the locals die, the
\* MutexGuard with them, and the response is sent.
Return(w) ==
    /\ pc[w] = "return"
    /\ mutex' = mutex \ {w}
    /\ pc' = [pc EXCEPT ![w] = "idle"]
    /\ req' = [req EXCEPT ![w] = NoReq]
    /\ resp' = [resp EXCEPT ![w] = NoResp]
    /\ found' = [found EXCEPT ![w] = 0]
    /\ new_configs' = [new_configs EXCEPT ![w] = <<>>]
    /\ sresp' = [sresp EXCEPT ![w] = NoResp]
    /\ UNCHANGED <<configs, sconfigs>>

\* One step of worker w after it has taken a request
Step(w) ==
    \/ RequireApiKey(w)
    \/ LogApiKey(w)
    \/ Lock(w)
    \/ GetConfigs(w)
    \/ SearchConfigs(w)
    \/ GetConfigById(w)
    \/ CreateFind(w)
    \/ CreatePush(w)
    \/ DeleteFilter(w)
    \/ DeleteCommit(w)
    \/ UpdateFind(w)
    \/ UpdateApply(w)
    \/ Return(w)

Next == \E w \in Workers : Accept(w) \/ Step(w)

Spec == Init /\ [][Next]_vars

NextConcurrent == \E w \in Workers : AcceptConcurrent(w) \/ Step(w)

SpecConcurrent == Init /\ [][NextConcurrent]_vars

NextFair == \E w \in Workers : AcceptFair(w) \/ Step(w)

\* The runtime polls every ready worker: a step that stays enabled is
\* taken.  Lock(w) is disabled while another worker holds the guard, so it
\* needs the strong form: a worker blocked in lock() is not passed over
\* for ever.  No fairness is asked of the arrival of requests.
SpecFair ==
    /\ Init
    /\ [][NextFair]_vars
    /\ \A w \in Workers : WF_vars(Step(w) /\ pc[w] # "handler")
    /\ \A w \in Workers : SF_vars(Lock(w))

\* ================================================================ claims
\* The ids of the records of a Vec<Config>
IdsOf(cs) == {cs[i].id : i \in 1..Len(cs)}

\* cs without its i-th record
Without(cs, i) == SubSeq(cs, 1, i - 1) \o SubSeq(cs, i + 1, Len(cs))

\* Worker w takes the step from pc a to pc b
Moves(w, a, b) == pc[w] = a /\ pc'[w] = b

\* ---------------------------------------------------------------- C1
\* C1: whatever requests arrive and however the workers interleave, no two
\* records of the store have the same id.
C1_UniqueIds ==
    \A i, j \in 1..Len(configs) : configs[i].id = configs[j].id => i = j

\* A create for a used id has been answered while the store holds two
\* records.
C1_Witness ==
    /\ Len(configs) = 2
    /\ \E w \in Workers :
        /\ pc[w] = "return"
        /\ req[w].op = "create_config"
        /\ resp[w].status = 409

C3_DeleteGate ==
    [][/\ \A w \in Workers :
            (pc[w] = "gate" /\ req[w].op = "delete_config" /\ pc'[w] # "gate") =>
                /\ configs' = configs
                /\ req[w].apikey = <<>> =>
                    /\ pc'[w] = "return"
                    /\ resp'[w] =
                         Resp(401, "Unauthorized", "missing api key", <<>>)
                /\ (req[w].apikey # <<>> /\ req[w].apikey # <<"rust-rocks">>) =>
                    /\ pc'[w] = "return"
                    /\ resp'[w] =
                         Resp(401, "Unauthorized", "incorrect api key", <<>>)
                /\ req[w].apikey = <<"rust-rocks">> =>
                    /\ pc'[w] = "handler"
                    /\ resp'[w] = resp[w]
       /\ \A w \in Workers :
            (req[w].op = "delete_config" /\ resp[w].status = 401) =>
                (pc'[w] = "return" \/ pc'[w] = "idle")
       /\ \A id \in IdsOf(configs) \ IdsOf(configs') :
            \E w \in Workers :
                /\ Moves(w, "delete_commit", "return")
                /\ req[w].id = id
                /\ req[w].apikey = <<"rust-rocks">>]_vars

\* A delete with a wrong key for an id that is in the store was refused.
C3_Witness ==
    \E w \in Workers :
        /\ pc[w] = "return"
        /\ req[w].op = "delete_config"
        /\ req[w].apikey = <<"wrong-key">>
        /\ req[w].id \in IdsOf(configs)
        /\ resp[w].status = 401

C5_DeleteAbsent ==
    [][\A w \in Workers :
        (Moves(w, "delete_commit", "return") /\ req[w].id \notin IdsOf(configs)) =>
            /\ configs' = configs
            /\ resp'[w] =
                 Resp(404, "NotFound", "id = " \o ToString(req[w].id), <<>>)]_vars

\* A delete for id 2 was answered 404 while the store holds a record.
C5_Witness ==
    \E w \in Workers :
        /\ pc[w] = "return"
        /\ req[w].op = "delete_config"
        /\ resp[w] = Resp(404, "NotFound", "id = 2", <<>>)
        /\ Len(configs) = 1

fold(c) ==
    CASE c = "A" -> "a"
      [] c = "SIGMA" -> "sigma"
      [] c = "final_sigma" -> "sigma"
      [] OTHER -> c

\* x and y are the same string but for the case of their letters
EqualIgnoringCase(x, y) ==
    /\ Len(x) = Len(y)
    /\ \A i \in 1..Len(x) : fold(x[i]) = fold(y[i])

\* Some substring of value is q but for the case of its letters
ContainsIgnoringCase(value, q) ==
    \E i \in 0..(Len(value) - Len(q)) :
        EqualIgnoringCase(SubSeq(value, i + 1, i + Len(q)), q)

HasIgnoringCase(c, q) == ContainsIgnoringCase(c.value, q)

\* C7: search answers 200 with the records of the store whose value
\* contains the query, case ignored, in the order of the store.
C7_SearchIgnoresCase ==
    \A w \in Workers :
        (pc[w] = "return" /\ req[w].op = "search_configs") =>
            resp[w] =
                Resp(200, "Configs", "",
                     SelectSeq(configs, LAMBDA c : HasIgnoringCase(c, req[w].query)))

\* ---------------------------------------------------------------- C8
\* C8: the gate of PUT calls the handler whatever the apikey header is and
\* changes nothing; the answer of an update and the store after it are
\* those the id, the patch and the store before determine; a PUT is never
\* answered 401.
C8_PutGate ==
    [][\A w \in Workers :
        /\ (pc[w] = "gate" /\ req[w].op = "update_config" /\ pc'[w] # "gate") =>
                /\ pc'[w] = "handler"
                /\ resp'[w] = resp[w]
                /\ configs' = configs
        /\ Moves(w, "update_apply", "return") =>
                <<configs', resp'[w]>> =
                    SerialUpdate(configs, req[w].id, req[w].value)
        /\ req[w].op = "update_config" => resp[w].status # 401]_vars

\* An update that carried a wrong key was answered 200.
C8_Witness ==
    \E w \in Workers :
        /\ pc[w] = "return"
        /\ req[w].op = "update_config"
        /\ req[w].apikey = <<"wrong-key">>
        /\ req[w].value # <<>>
        /\ resp[w].status = 200

\* ---------------------------------------------------------------- C9
\* C9: at most one worker holds the guard; what a handler read under the
\* guard is still true of the store when it acts on it; and the responses
\* and the store are those of the requests run one after the other in the
\* order the handlers took the lock.
C9_Serializable ==
    /\ Cardinality(mutex) <= 1
    /\ \A w \in Workers :
        /\ w \in mutex <=>
            /\ pc[w] \notin {"idle", "gate", "handler"}
            /\ ~(pc[w] = "return" /\ resp[w].status = 401)
        /\ pc[w] \in {"create_push", "update_apply"} =>
            found[w] = Find(configs,
                            IF pc[w] = "create_push"
                            THEN req[w].config.id ELSE req[w].id)
        /\ pc[w] = "delete_commit" =>
            new_configs[w] = FilterNotId(configs, req[w].id)
        /\ (pc[w] = "return" /\ w \in mutex) =>
            /\ resp[w] = sresp[w]
            /\ configs = sconfigs
    /\ mutex = {} => configs = sconfigs

\* Two creates for one id in flight together: one has appended its record
\* and holds the guard, the other waits for the lock.
C9_Witness ==
    \E v, w \in Workers :
        /\ v # w
        /\ req[v].op = "create_config"
        /\ req[w].op = "create_config"
        /\ req[v].config.id = req[w].config.id
        /\ pc[v] = "return"
        /\ resp[v].status = 200
        /\ pc[w] = "handler"

====
